---- MODULE Spec2Model ----
(***************************************************************************)
(* meetsync: the meeting service (internal/services/meeting_service.go)    *)
(* over the in-memory meeting repository (internal/repositories), with the *)
(* recommendation engine calculateRecommendations.                         *)
(*                                                                         *)
(* Strings that the code only compares are numbers here: a user id, a      *)
(* meeting id, an availability id and a slot id are integers, 0 is the     *)
(* empty string "", and a time.Time instant is an integer.  A models.User  *)
(* value is its ID: the engine reads no other field, and the user          *)
(* repository never changes a stored user.  CreatedAt and UpdatedAt are    *)
(* left out: no operation reads them.                                      *)
(*                                                                         *)
(* ret is what the latest service call returned: the type and the message  *)
(* of its error, and for a GetRecommendations call that succeeded the      *)
(* meeting id and the list.                                                *)
(*                                                                         *)
(* call and deleted are history variables: the latest call with its        *)
(* arguments, and the ids of the meetings DeleteMeeting has removed.  Spec *)
(* leaves them alone; SpecCalls records them with every call.              *)
(*                                                                         *)
(* SpecConc runs one GetRecommendations call beside the other calls: its   *)
(* two repository reads are two steps, and reading holds what it has read. *)
(* The repository has no lock; every repository method is taken as one     *)
(* step here, which leaves out the races inside a method and keeps the     *)
(* interleavings between two methods.  snapshots is a history variable:    *)
(* every pair of a meeting and its records the repository has held.        *)
(*                                                                         *)
(* SpecUpdate runs UpdateMeeting with every combination of given and       *)
(* omitted fields.  SpecEngine hands calculateRecommendations meetings and *)
(* records the service would not store, a meeting without slots among      *)
(* them.  SpecUsers runs InMemoryUserRepository.Create in goroutines: the  *)
(* lock, the loop over the stored users and the write are steps of their   *)
(* own.  SpecTest runs the goroutines of the repository test on the        *)
(* meeting repository, where an assignment to a map begins in one step and *)
(* ends in another; two assignments to one map that overlap are a data     *)
(* race, whose outcome is any of RaceOutcomes.                             *)
(***************************************************************************)
EXTENDS Integers, Sequences, FiniteSets, TLC

\* ------------------------------------------------------------------ bounds
\* how many ids uuid.New() hands out in one behaviour
MaxUuid == 3

\* the users the user service holds, and an id it does not hold
Users == {1, 2}
UnknownUsers == {9}
UserIDs == Users \cup UnknownUsers
\* the goroutines a repository test starts
Goroutines == {1, 2, 3}
\* the users are interchangeable: a meeting's organizer is user 1
OrganizerIDs == {1} \cup UnknownUsers

\* models.TimeSlot
TimeSlot(id, start, end) == [ID |-> id, StartTime |-> start, EndTime |-> end]

\* the slots a request carries: one without an id ("" is 0) and one with the
\* id 1 the caller chose; their intervals overlap and are not equal
InputSlots == {TimeSlot(0, 1, 2), TimeSlot(1, 1, 3)}

\* proposedSlots of a request: at most two slots
SlotLists ==
    {<<>>} \cup {<<s>> : s \in InputSlots} \cup {<<s, t>> : s, t \in InputSlots}
\* availableSlots of a request: at most one slot
AvailableSlotLists == {<<>>} \cup {<<s>> : s \in InputSlots}
\* participantIDs of a request: at most one id
ParticipantLists == {<<>>} \cup {<<u>> : u \in UserIDs}

\* the CreateMeeting requests: every request with a title and a duration, and
\* one request without a title and one without a duration
CreateMeetingRequests ==
    [title : {"Sync"}, organizerID : OrganizerIDs, estimatedDuration : {60},
     proposedSlots : SlotLists, participantIDs : ParticipantLists]
    \cup
    [title : {"", "Sync"}, organizerID : {1}, estimatedDuration : {0, 60},
     proposedSlots : {<<TimeSlot(0, 1, 2)>>}, participantIDs : {<<>>}]

\* the UpdateMeeting requests: one that gives the title and the duration
\* alone, and every one that gives slots and participants alone
UpdateMeetingRequests ==
    [title : {"Sync"}, estimatedDuration : {60},
     proposedSlots : {<<>>}, participantIDs : {<<>>}]
    \cup
    [title : {""}, estimatedDuration : {0},
     proposedSlots : SlotLists, participantIDs : ParticipantLists]

VARIABLES
    meetings,        \* InMemoryMeetingRepository.meetings: id -> models.Meeting
    availabilities,  \* InMemoryMeetingRepository.availabilities: id -> models.Availability
    nextUuid,        \* how many ids uuid.New() has handed out
    ret,             \* what the latest service call returned
    call,            \* history: the latest call, its operation and arguments
    deleted,         \* history: the ids of the meetings DeleteMeeting removed
    reading,         \* the GetRecommendations call in flight: what it has read
    snapshots,       \* history: every <<meeting, its records>> the repository held
    users,           \* InMemoryUserRepository.users: id -> email
    mu,              \* InMemoryUserRepository.mu: the goroutine that holds it, 0 for none
    goroutines       \* the goroutines of the repository tests: where each one is

vars == <<meetings, availabilities, nextUuid, ret, call, deleted, reading, snapshots,
          users, mu, goroutines>>
hist == <<call, deleted, reading, snapshots, users, mu, goroutines>>

\* ------------------------------------------------------------- helpers
Range(s) == {s[i] : i \in DOMAIN s}

\* every order in which a Go map with key set S can be iterated
Orderings(S) ==
    {f \in [1..Cardinality(S) -> S] : \A i, j \in DOMAIN f : f[i] = f[j] => i = j}

\* errors.ErrorType of the returned error; "" is a nil error
ErrNone == ""
ErrValidation == "VALIDATION"
ErrNotFound == "NOT_FOUND"

NoRecs == <<>>

\* a returned error, and the recommendations GetRecommendations(meetingID) returned
Ret(err, meetingID, recs) ==
    [err |-> err, msg |-> "", meetingID |-> meetingID, recs |-> recs]

\* UserServiceImpl.GetUserByID succeeds
UserExists(id) == id \in Users

\* errors.NewValidationError(msg, "") and errors.NewNotFoundError(msg), returned
Failure(err, msg) == [err |-> err, msg |-> msg, meetingID |-> 0, recs |-> NoRecs]

\* the first id of the list that the user service does not hold
FirstUnknown(participantIDs) ==
    LET idx == {i \in DOMAIN participantIDs : ~UserExists(participantIDs[i])}
    IN  participantIDs[CHOOSE i \in idx : \A j \in idx : i <= j]

\* "Participant not found: " + participantID
ParticipantNotFound(participantIDs) ==
    "Participant not found: " \o ToString(FirstUnknown(participantIDs))

\* the n-th id uuid.New() returns: above every id a caller writes in a request
Uuid(n) == 100 + n

\* how many slots of the list have an empty id
RECURSIVE CountEmpty(_)
CountEmpty(slots) ==
    IF slots = <<>> THEN 0
    ELSE (IF slots[1].ID = 0 THEN 1 ELSE 0) + CountEmpty(Tail(slots))

\* a bug the loop could have: it is missing and a slot keeps its empty id
AssignSlotIDsNone(slots, n) == slots

\* the loop "if slots[i].ID == "" { slots[i].ID = uuid.New().String() }":
\* n ids were handed out before it
AssignSlotIDs(slots, n) ==
    [i \in DOMAIN slots |->
        IF slots[i].ID = 0
        THEN [slots[i] EXCEPT !.ID = Uuid(n + CountEmpty(SubSeq(slots, 1, i)))]
        ELSE slots[i]]

\* ------------------------------------------------- calculateRecommendations
\* allParticipants := append([]models.User{*meeting.Organizer}, meeting.Participants...)
AllParticipants(meeting) == <<meeting.OrganizerID>> \o meeting.Participants

\* a bug the isValid test could have: every entry passes
IsValidAnyone(meeting, participantID) == TRUE

\* the isValid test of an availability entry
IsValid(meeting, participantID) ==
    \/ participantID = meeting.OrganizerID
    \/ \E i \in DOMAIN meeting.Participants : meeting.Participants[i] = participantID

\* the key set of slotAvailability, slotMap and unavailableParticipants
SlotKeys(meeting) == {meeting.ProposedSlots[i].ID : i \in DOMAIN meeting.ProposedSlots}

\* slotMap[slotID]: a later proposed slot with the same id overwrites an earlier one
SlotMap(meeting, slotID) ==
    LET idx == {i \in DOMAIN meeting.ProposedSlots : meeting.ProposedSlots[i].ID = slotID}
    IN  meeting.ProposedSlots[CHOOSE i \in idx : \A j \in idx : j <= i]

\* the id comparison of an available slot with a proposed slot
SlotMatches(availableSlot, proposedSlot) == availableSlot.ID = proposedSlot.ID

\* slotAvailability[slotID] after the loop over the availability entries: one
\* increment for every (entry, available slot, proposed slot) that matches
SlotAvailability(meeting, avs, slotID) ==
    Cardinality({t \in UNION {{<<a, j, k>> : j \in DOMAIN avs[a].AvailableSlots,
                                            k \in DOMAIN meeting.ProposedSlots} :
                              a \in DOMAIN avs} :
        /\ IsValid(meeting, avs[t[1]].ParticipantID)
        /\ meeting.ProposedSlots[t[3]].ID = slotID
        /\ SlotMatches(avs[t[1]].AvailableSlots[t[2]], meeting.ProposedSlots[t[3]])})

\* participantAvailability[participantID][slotID] after the same loop
ParticipantAvailability(meeting, avs, participantID, slotID) ==
    \E a \in DOMAIN avs :
        /\ avs[a].ParticipantID = participantID
        /\ IsValid(meeting, participantID)
        /\ \E j \in DOMAIN avs[a].AvailableSlots, k \in DOMAIN meeting.ProposedSlots :
            /\ meeting.ProposedSlots[k].ID = slotID
            /\ SlotMatches(avs[a].AvailableSlots[j], meeting.ProposedSlots[k])

\* unavailableParticipants[slotID]: the outer loop runs over allParticipants in
\* order, so the order in which the inner loop visits slotMap does not show
UnavailableParticipants(meeting, avs, slotID) ==
    LET unavailable(p) == ~ParticipantAvailability(meeting, avs, p, slotID)
    IN  SelectSeq(AllParticipants(meeting), unavailable)

RecommendedSlot(meeting, avs, slotID) ==
    [TimeSlot                |-> SlotMap(meeting, slotID),
     AvailableCount          |-> SlotAvailability(meeting, avs, slotID),
     TotalParticipants       |-> Len(AllParticipants(meeting)),
     UnavailableParticipants |-> UnavailableParticipants(meeting, avs, slotID)]

\* a bug less(i, j) could have: the comparison turned around
LessAscending(a, b) == a.AvailableCount < b.AvailableCount

\* less(i, j) of the sort.Slice call
Less(a, b) == a.AvailableCount > b.AvailableCount

\* insert x into the sorted prefix s from the right, as insertion sort does
RECURSIVE InsertSorted(_, _)
InsertSorted(s, x) ==
    IF s # <<>> /\ Less(x, s[Len(s)])
    THEN Append(InsertSorted(SubSeq(s, 1, Len(s) - 1), x), s[Len(s)])
    ELSE Append(s, x)

\* sort.Slice on a slice shorter than 12 elements is an insertion sort
RECURSIVE SortSlice(_)
SortSlice(s) ==
    IF s = <<>> THEN <<>>
    ELSE InsertSorted(SortSlice(SubSeq(s, 1, Len(s) - 1)), s[Len(s)])

\* a bug the counting loop could have: "slotAvailability[availableSlot.ID]++"
\* outside the comparison with the proposed slots, which makes an entry for a
\* slot id that only an availability record names
calculateRecommendationsAnySlot(meeting, avs, order) ==
    LET named == UNION {{avs[a].AvailableSlots[j].ID : j \in DOMAIN avs[a].AvailableSlots} :
                        a \in {b \in DOMAIN avs : IsValid(meeting, avs[b].ParticipantID)}}
        more == CHOOSE f \in Orderings(named \ SlotKeys(meeting)) : TRUE
    IN  SortSlice([i \in DOMAIN order |-> RecommendedSlot(meeting, avs, order[i])]
                  \o [i \in DOMAIN more |->
                        [TimeSlot                |-> TimeSlot(0, 0, 0),
                         AvailableCount          |-> 1,
                         TotalParticipants       |-> Len(AllParticipants(meeting)),
                         UnavailableParticipants |-> <<>>]])

\* avs: the slice GetMeetingAvailabilities returned; order: the order in which
\* "for slotID, count := range slotAvailability" visits the map
calculateRecommendations(meeting, avs, order) ==
    SortSlice([i \in DOMAIN order |-> RecommendedSlot(meeting, avs, order[i])])

\* ------------------------------------------------------------ repository
\* GetMeetingAvailabilities: the ids of the records of the meeting
MeetingAvailabilityIDs(meetingID) ==
    {a \in DOMAIN availabilities : availabilities[a].MeetingID = meetingID}

\* InMemoryMeetingRepository.GetAvailability: the ids of the records the loop
\* over the map can return; none when it returns the NotFound error
GetAvailabilityIDs(userID, meetingID) ==
    {a \in DOMAIN availabilities :
        /\ availabilities[a].ParticipantID = userID
        /\ availabilities[a].MeetingID = meetingID}

\* the lists GetRecommendations can return for a stored meeting: one for every
\* order in which the two maps can be iterated
Recommendations(meetingID) ==
    {calculateRecommendations(meetings[meetingID],
                              [i \in DOMAIN avs |-> availabilities[avs[i]]],
                              order) :
        avs \in Orderings(MeetingAvailabilityIDs(meetingID)),
        order \in Orderings(SlotKeys(meetings[meetingID]))}

\* the ids a request can name: the stored ones, the ones of deleted meetings
\* and one that nothing has
MeetingIDs == DOMAIN meetings \cup deleted \cup {Uuid(0)}
AvailabilityIDs == DOMAIN availabilities \cup {Uuid(0)}

\* ---------------------------------------------------------------- actions
Init ==
    /\ meetings = <<>>
    /\ availabilities = <<>>
    /\ nextUuid = 0
    /\ ret = Ret(ErrNone, 0, NoRecs)
    /\ call = [op |-> "", args |-> <<>>]
    /\ deleted = {}
    /\ reading = [pc |-> "idle"]
    /\ snapshots = {}
    /\ users = <<>>
    /\ mu = 0
    /\ goroutines = [g \in Goroutines |-> [pc |-> "idle"]]

\* a bug the order of the checks could have: the organizer and the participants
\* are looked up before the title, the duration and the slots are checked
CreateMeetingLookupFirst(title, organizerID, estimatedDuration, proposedSlots, participantIDs) ==
    /\ nextUuid + 1 + CountEmpty(proposedSlots) <= MaxUuid
    /\ IF ~UserExists(organizerID)
       THEN /\ ret' = Failure(ErrNotFound, "Organizer not found")
            /\ UNCHANGED <<meetings, availabilities, nextUuid>>
       ELSE IF \E i \in DOMAIN participantIDs : ~UserExists(participantIDs[i])
       THEN /\ ret' = Failure(ErrNotFound, ParticipantNotFound(participantIDs))
            /\ UNCHANGED <<meetings, availabilities, nextUuid>>
       ELSE IF title = ""
       THEN /\ ret' = Failure(ErrValidation, "Title is required")
            /\ UNCHANGED <<meetings, availabilities, nextUuid>>
       ELSE IF estimatedDuration <= 0
       THEN /\ ret' = Failure(ErrValidation, "Estimated duration must be positive")
            /\ UNCHANGED <<meetings, availabilities, nextUuid>>
       ELSE IF Len(proposedSlots) = 0
       THEN /\ ret' = Failure(ErrValidation, "At least one proposed time slot is required")
            /\ UNCHANGED <<meetings, availabilities, nextUuid>>
       ELSE LET id == Uuid(nextUuid + 1)
                meeting == [ID                |-> id,
                            Title             |-> title,
                            OrganizerID       |-> organizerID,
                            EstimatedDuration |-> estimatedDuration,
                            ProposedSlots     |-> AssignSlotIDs(proposedSlots, nextUuid + 1),
                            Participants      |-> participantIDs]
            IN  /\ meetings' = (id :> meeting) @@ meetings
                /\ nextUuid' = nextUuid + 1 + CountEmpty(proposedSlots)
                /\ ret' = Ret(ErrNone, 0, NoRecs)
                /\ UNCHANGED availabilities

\* MeetingServiceImpl.CreateMeeting with InMemoryMeetingRepository.CreateMeeting
CreateMeeting(title, organizerID, estimatedDuration, proposedSlots, participantIDs) ==
    /\ nextUuid + 1 + CountEmpty(proposedSlots) <= MaxUuid
    /\ IF title = ""
       THEN /\ ret' = Failure(ErrValidation, "Title is required")
            /\ UNCHANGED <<meetings, availabilities, nextUuid>>
       ELSE IF estimatedDuration <= 0
       THEN /\ ret' = Failure(ErrValidation, "Estimated duration must be positive")
            /\ UNCHANGED <<meetings, availabilities, nextUuid>>
       ELSE IF Len(proposedSlots) = 0
       THEN /\ ret' = Failure(ErrValidation, "At least one proposed time slot is required")
            /\ UNCHANGED <<meetings, availabilities, nextUuid>>
       ELSE IF ~UserExists(organizerID)
       THEN /\ ret' = Failure(ErrNotFound, "Organizer not found")
            /\ UNCHANGED <<meetings, availabilities, nextUuid>>
       ELSE IF \E i \in DOMAIN participantIDs : ~UserExists(participantIDs[i])
       THEN /\ ret' = Failure(ErrNotFound, ParticipantNotFound(participantIDs))
            /\ UNCHANGED <<meetings, availabilities, nextUuid>>
       ELSE LET id == Uuid(nextUuid + 1)
                meeting == [ID                |-> id,
                            Title             |-> title,
                            OrganizerID       |-> organizerID,
                            EstimatedDuration |-> estimatedDuration,
                            ProposedSlots     |-> AssignSlotIDs(proposedSlots, nextUuid + 1),
                            Participants      |-> participantIDs]
            IN  /\ meetings' = (id :> meeting) @@ meetings
                /\ nextUuid' = nextUuid + 1 + CountEmpty(proposedSlots)
                /\ ret' = Ret(ErrNone, 0, NoRecs)
                /\ UNCHANGED availabilities

\* a bug GetRecommendations could have: the records the engine skips, those of
\* users who are neither the organizer nor invited, are deleted on the way
GetRecommendationsPrunes(meetingID) ==
    /\ UNCHANGED <<meetings, nextUuid>>
    /\ IF meetingID \notin DOMAIN meetings
       THEN /\ ret' = Failure(ErrNotFound, "Meeting not found")
            /\ UNCHANGED availabilities
       ELSE /\ \E recs \in Recommendations(meetingID) :
                    ret' = Ret(ErrNone, meetingID, recs)
            /\ availabilities' =
                [a \in {b \in DOMAIN availabilities :
                            \/ availabilities[b].MeetingID # meetingID
                            \/ IsValid(meetings[meetingID], availabilities[b].ParticipantID)}
                    |-> availabilities[a]]

\* MeetingServiceImpl.GetRecommendations
GetRecommendations(meetingID) ==
    /\ UNCHANGED <<meetings, availabilities, nextUuid>>
    /\ IF meetingID \notin DOMAIN meetings
       THEN ret' = Failure(ErrNotFound, "Meeting not found")
       ELSE \E recs \in Recommendations(meetingID) :
                ret' = Ret(ErrNone, meetingID, recs)

\* a bug the update could have: the title, the duration and the slots are
\* stored before the participants are looked up
UpdateMeetingStoresFirst(meetingID, title, estimatedDuration, proposedSlots, participantIDs) ==
    /\ nextUuid + CountEmpty(proposedSlots) <= MaxUuid
    /\ UNCHANGED availabilities
    /\ IF meetingID \notin DOMAIN meetings
       THEN /\ ret' = Failure(ErrNotFound, "Meeting not found")
            /\ UNCHANGED <<meetings, nextUuid>>
       ELSE LET old == meetings[meetingID]
                unknown == \E i \in DOMAIN participantIDs : ~UserExists(participantIDs[i])
                meeting ==
                    [old EXCEPT
                        !.Title = IF title # "" THEN title ELSE @,
                        !.EstimatedDuration =
                            IF estimatedDuration > 0 THEN estimatedDuration ELSE @,
                        !.ProposedSlots =
                            IF Len(proposedSlots) > 0
                            THEN AssignSlotIDs(proposedSlots, nextUuid) ELSE @,
                        !.Participants =
                            IF Len(participantIDs) > 0 /\ ~unknown
                            THEN participantIDs ELSE @]
            IN  /\ nextUuid' = nextUuid + CountEmpty(proposedSlots)
                /\ meetings' = [meetings EXCEPT ![meetingID] = meeting]
                /\ ret' = IF unknown
                          THEN Failure(ErrNotFound, ParticipantNotFound(participantIDs))
                          ELSE Ret(ErrNone, 0, NoRecs)

\* a bug the update could have: the tests 'title != ""' and
\* "estimatedDuration > 0" are missing and a field the request leaves out is
\* overwritten with its zero value
UpdateMeetingOverwrites(meetingID, title, estimatedDuration, proposedSlots, participantIDs) ==
    /\ nextUuid + CountEmpty(proposedSlots) <= MaxUuid
    /\ UNCHANGED availabilities
    /\ IF meetingID \notin DOMAIN meetings
       THEN /\ ret' = Failure(ErrNotFound, "Meeting not found")
            /\ UNCHANGED <<meetings, nextUuid>>
       ELSE /\ nextUuid' = nextUuid + CountEmpty(proposedSlots)
            /\ IF \E i \in DOMAIN participantIDs : ~UserExists(participantIDs[i])
               THEN /\ ret' = Failure(ErrNotFound, ParticipantNotFound(participantIDs))
                    /\ UNCHANGED meetings
               ELSE LET old == meetings[meetingID]
                        meeting ==
                            [old EXCEPT
                                !.Title = title,
                                !.EstimatedDuration = estimatedDuration,
                                !.ProposedSlots =
                                    IF Len(proposedSlots) > 0
                                    THEN AssignSlotIDs(proposedSlots, nextUuid) ELSE @,
                                !.Participants =
                                    IF Len(participantIDs) > 0 THEN participantIDs ELSE @]
                    IN  /\ meetings' = [meetings EXCEPT ![meetingID] = meeting]
                        /\ ret' = Ret(ErrNone, 0, NoRecs)

\* MeetingServiceImpl.UpdateMeeting with InMemoryMeetingRepository.UpdateMeeting
UpdateMeeting(meetingID, title, estimatedDuration, proposedSlots, participantIDs) ==
    /\ nextUuid + CountEmpty(proposedSlots) <= MaxUuid
    /\ UNCHANGED availabilities
    /\ IF meetingID \notin DOMAIN meetings
       THEN /\ ret' = Failure(ErrNotFound, "Meeting not found")
            /\ UNCHANGED <<meetings, nextUuid>>
       ELSE /\ nextUuid' = nextUuid + CountEmpty(proposedSlots)
            /\ IF \E i \in DOMAIN participantIDs : ~UserExists(participantIDs[i])
               THEN /\ ret' = Failure(ErrNotFound, ParticipantNotFound(participantIDs))
                    /\ UNCHANGED meetings
               ELSE LET old == meetings[meetingID]
                        meeting ==
                            [old EXCEPT
                                !.Title = IF title # "" THEN title ELSE @,
                                !.EstimatedDuration =
                                    IF estimatedDuration > 0 THEN estimatedDuration ELSE @,
                                !.ProposedSlots =
                                    IF Len(proposedSlots) > 0
                                    THEN AssignSlotIDs(proposedSlots, nextUuid) ELSE @,
                                !.Participants =
                                    IF Len(participantIDs) > 0 THEN participantIDs ELSE @]
                    IN  /\ meetings' = [meetings EXCEPT ![meetingID] = meeting]
                        /\ ret' = Ret(ErrNone, 0, NoRecs)

\* a bug the deletion could have: the records go, "delete(r.meetings, id)" is
\* missing and the meeting stays
DeleteMeetingRecordsOnly(meetingID) ==
    /\ UNCHANGED <<nextUuid, meetings>>
    /\ IF meetingID \notin DOMAIN meetings
       THEN /\ ret' = Failure(ErrNotFound, "Meeting not found")
            /\ UNCHANGED availabilities
       ELSE /\ availabilities' =
                [a \in DOMAIN availabilities \ MeetingAvailabilityIDs(meetingID) |->
                    availabilities[a]]
            /\ ret' = Ret(ErrNone, 0, NoRecs)

\* a bug the cascade could have: the test "avail.MeetingID == id" is missing and
\* every record is deleted
DeleteMeetingAllRecords(meetingID) ==
    /\ UNCHANGED nextUuid
    /\ IF meetingID \notin DOMAIN meetings
       THEN /\ ret' = Failure(ErrNotFound, "Meeting not found")
            /\ UNCHANGED <<meetings, availabilities>>
       ELSE /\ meetings' = [m \in DOMAIN meetings \ {meetingID} |-> meetings[m]]
            /\ availabilities' = <<>>
            /\ ret' = Ret(ErrNone, 0, NoRecs)

\* a bug the deletion could have: the loop over r.availabilities is missing and
\* the records of the meeting stay
DeleteMeetingOnly(meetingID) ==
    /\ UNCHANGED <<nextUuid, availabilities>>
    /\ IF meetingID \notin DOMAIN meetings
       THEN /\ ret' = Failure(ErrNotFound, "Meeting not found")
            /\ UNCHANGED meetings
       ELSE /\ meetings' = [m \in DOMAIN meetings \ {meetingID} |-> meetings[m]]
            /\ ret' = Ret(ErrNone, 0, NoRecs)

\* MeetingServiceImpl.DeleteMeeting with InMemoryMeetingRepository.DeleteMeeting
DeleteMeeting(meetingID) ==
    /\ UNCHANGED nextUuid
    /\ IF meetingID \notin DOMAIN meetings
       THEN /\ ret' = Failure(ErrNotFound, "Meeting not found")
            /\ UNCHANGED <<meetings, availabilities>>
       ELSE /\ meetings' = [m \in DOMAIN meetings \ {meetingID} |-> meetings[m]]
            /\ availabilities' =
                [a \in DOMAIN availabilities \ MeetingAvailabilityIDs(meetingID) |->
                    availabilities[a]]
            /\ ret' = Ret(ErrNone, 0, NoRecs)

\* a bug the match could have: the end instants are not compared
MatchIndexStartOnly(availableSlot, proposedSlots) ==
    LET idx == {k \in DOMAIN proposedSlots :
                    availableSlot.StartTime = proposedSlots[k].StartTime}
    IN  IF idx = {} THEN 0 ELSE CHOOSE k \in idx : \A j \in idx : k <= j

\* the proposed slot an available slot is matched with: the first one whose
\* start and end instants are equal; 0 when there is none
MatchIndex(availableSlot, proposedSlots) ==
    LET idx == {k \in DOMAIN proposedSlots :
                    /\ availableSlot.StartTime = proposedSlots[k].StartTime
                    /\ availableSlot.EndTime = proposedSlots[k].EndTime}
    IN  IF idx = {} THEN 0 ELSE CHOOSE k \in idx : \A j \in idx : k <= j

\* MeetingServiceImpl.AddAvailability with InMemoryMeetingRepository.CreateAvailability
AddAvailability(userID, meetingID, availableSlots) ==
    /\ nextUuid + 1 <= MaxUuid
    /\ UNCHANGED meetings
    /\ IF ~UserExists(userID)
       THEN /\ ret' = Failure(ErrNotFound, "User not found")
            /\ UNCHANGED <<availabilities, nextUuid>>
       ELSE IF meetingID \notin DOMAIN meetings
       THEN /\ ret' = Failure(ErrNotFound, "Meeting not found")
            /\ UNCHANGED <<availabilities, nextUuid>>
       ELSE LET proposed == meetings[meetingID].ProposedSlots
            IN  IF \E i \in DOMAIN availableSlots : MatchIndex(availableSlots[i], proposed) = 0
                THEN /\ ret' = Failure(ErrValidation,
                                       "Available slot does not match any proposed slot")
                     /\ UNCHANGED <<availabilities, nextUuid>>
                ELSE LET id == Uuid(nextUuid + 1)
                         availability ==
                            [ID             |-> id,
                             ParticipantID  |-> userID,
                             MeetingID      |-> meetingID,
                             AvailableSlots |->
                                [i \in DOMAIN availableSlots |->
                                    proposed[MatchIndex(availableSlots[i], proposed)]]]
                     IN  /\ availabilities' = (id :> availability) @@ availabilities
                         /\ nextUuid' = nextUuid + 1
                         /\ ret' = Ret(ErrNone, 0, NoRecs)

\* MeetingServiceImpl.UpdateAvailability with InMemoryMeetingRepository.UpdateAvailability
UpdateAvailability(availabilityID, availableSlots) ==
    /\ UNCHANGED <<meetings, nextUuid>>
    /\ IF Len(availableSlots) = 0
       THEN /\ ret' = Failure(ErrValidation, "At least one available time slot is required")
            /\ UNCHANGED availabilities
       ELSE IF availabilityID \notin DOMAIN availabilities
       THEN /\ ret' = Failure(ErrNotFound, "Availability not found")
            /\ UNCHANGED availabilities
       ELSE /\ availabilities' =
                [availabilities EXCEPT ![availabilityID].AvailableSlots = availableSlots]
            /\ ret' = Ret(ErrNone, 0, NoRecs)

\* MeetingServiceImpl.DeleteAvailability with InMemoryMeetingRepository.DeleteAvailability
DeleteAvailability(availabilityID) ==
    /\ UNCHANGED <<meetings, nextUuid>>
    /\ IF availabilityID \notin DOMAIN availabilities
       THEN /\ ret' = Failure(ErrNotFound, "Availability not found")
            /\ UNCHANGED availabilities
       ELSE /\ availabilities' =
                [a \in DOMAIN availabilities \ {availabilityID} |-> availabilities[a]]
            /\ ret' = Ret(ErrNone, 0, NoRecs)

\* MeetingServiceImpl.GetAvailability with InMemoryMeetingRepository.GetAvailability
GetAvailability(userID, meetingID) ==
    /\ UNCHANGED <<meetings, availabilities, nextUuid>>
    /\ IF GetAvailabilityIDs(userID, meetingID) = {}
       THEN ret' = Failure(ErrNotFound, "Availability not found")
       ELSE ret' = Ret(ErrNone, 0, NoRecs)

\* the slot lists an UpdateAvailability request carries: the request lists, and
\* a proposed slot of a stored meeting sent back as the server returned it
StoredSlots ==
    UNION {Range(meetings[m].ProposedSlots) : m \in DOMAIN meetings}
UpdateSlotLists == AvailableSlotLists \cup {<<s>> : s \in StoredSlots}

Next ==
    \/ \E r \in CreateMeetingRequests :
            /\ CreateMeeting(r.title, r.organizerID, r.estimatedDuration,
                             r.proposedSlots, r.participantIDs)
            /\ UNCHANGED hist
    \/ \E meetingID \in MeetingIDs :
            GetRecommendations(meetingID) /\ UNCHANGED hist
    \/ \E meetingID \in MeetingIDs, r \in UpdateMeetingRequests :
            /\ UpdateMeeting(meetingID, r.title, r.estimatedDuration,
                             r.proposedSlots, r.participantIDs)
            /\ UNCHANGED hist
    \/ \E meetingID \in MeetingIDs :
            DeleteMeeting(meetingID) /\ UNCHANGED hist
    \/ \E userID \in UserIDs, meetingID \in MeetingIDs, availableSlots \in AvailableSlotLists :
            AddAvailability(userID, meetingID, availableSlots) /\ UNCHANGED hist
    \/ \E availabilityID \in AvailabilityIDs, availableSlots \in UpdateSlotLists :
            UpdateAvailability(availabilityID, availableSlots) /\ UNCHANGED hist
    \/ \E availabilityID \in AvailabilityIDs :
            DeleteAvailability(availabilityID) /\ UNCHANGED hist
    \/ \E userID \in UserIDs, meetingID \in MeetingIDs :
            GetAvailability(userID, meetingID) /\ UNCHANGED hist

Spec == Init /\ [][Next]_vars

\* ------------------------------------------------- the calls, recorded
\* the latest call
Call(op, args) == [op |-> op, args |-> args]

\* the slots the recorded requests carry: two without an id, and one with the
\* id 1 the caller chose that has the instants of the second
CallSlotA == TimeSlot(0, 1, 2)
CallSlotB == TimeSlot(0, 1, 3)
CallSlotB1 == TimeSlot(1, 1, 3)

\* proposedSlots of a recorded request
CallProposedLists ==
    {<<>>, <<CallSlotB>>, <<CallSlotB1>>, <<CallSlotB, CallSlotB1>>, <<CallSlotA, CallSlotB1>>}
\* availableSlots of a recorded request
CallAvailableLists ==
    {<<>>, <<CallSlotA>>, <<CallSlotB>>, <<CallSlotB, CallSlotA>>}
\* participantIDs of a recorded request
CallParticipantLists == {<<>>, <<2>>}

\* the recorded CreateMeeting requests: the ones that pass every check, every
\* combination of a missing title, a duration of 0, no slots and an unknown
\* organizer, and the ones with an unknown participant
CallCreateRequests ==
    [title : {"Sync"}, organizerID : {1}, estimatedDuration : {60},
     proposedSlots : CallProposedLists \ {<<>>}, participantIDs : CallParticipantLists]
    \cup
    [title : {"", "Sync"}, organizerID : OrganizerIDs, estimatedDuration : {0, 60},
     proposedSlots : {<<>>, <<CallSlotB1>>}, participantIDs : {<<>>}]
    \cup
    [title : {"", "Sync"}, organizerID : {1}, estimatedDuration : {60},
     proposedSlots : {<<CallSlotB1>>}, participantIDs : {<<u>> : u \in UnknownUsers}]

\* the recorded UpdateMeeting requests
CallUpdateRequests ==
    [title : {"Sync"}, estimatedDuration : {60},
     proposedSlots : {<<>>}, participantIDs : {<<>>}]
    \cup
    [title : {""}, estimatedDuration : {0},
     proposedSlots : {<<CallSlotB>>, <<CallSlotA, CallSlotB1>>},
     participantIDs : {<<>>} \cup {<<u>> : u \in UnknownUsers}]
    \cup
    [title : {""}, estimatedDuration : {0},
     proposedSlots : {<<>>}, participantIDs : CallParticipantLists]

NextCalls ==
    \/ \E r \in CallCreateRequests :
            /\ CreateMeeting(r.title, r.organizerID, r.estimatedDuration,
                             r.proposedSlots, r.participantIDs)
            /\ call' = Call("CreateMeeting", r)
            /\ UNCHANGED <<deleted, reading, snapshots, users, mu, goroutines>>
    \/ \E meetingID \in MeetingIDs :
            /\ GetRecommendations(meetingID)
            /\ call' = Call("GetRecommendations", [meetingID |-> meetingID])
            /\ UNCHANGED <<deleted, reading, snapshots, users, mu, goroutines>>
    \/ \E meetingID \in MeetingIDs, r \in CallUpdateRequests :
            /\ UpdateMeeting(meetingID, r.title, r.estimatedDuration,
                             r.proposedSlots, r.participantIDs)
            /\ call' = Call("UpdateMeeting",
                            [meetingID |-> meetingID, title |-> r.title,
                             estimatedDuration |-> r.estimatedDuration,
                             proposedSlots |-> r.proposedSlots,
                             participantIDs |-> r.participantIDs])
            /\ UNCHANGED <<deleted, reading, snapshots, users, mu, goroutines>>
    \/ \E meetingID \in MeetingIDs :
            /\ DeleteMeeting(meetingID)
            /\ call' = Call("DeleteMeeting", [meetingID |-> meetingID])
            /\ deleted' = IF meetingID \in DOMAIN meetings
                          THEN deleted \cup {meetingID} ELSE deleted
            /\ UNCHANGED <<reading, snapshots, users, mu, goroutines>>
    \/ \E userID \in UserIDs, meetingID \in MeetingIDs, availableSlots \in CallAvailableLists :
            /\ AddAvailability(userID, meetingID, availableSlots)
            /\ call' = Call("AddAvailability",
                            [userID |-> userID, meetingID |-> meetingID,
                             availableSlots |-> availableSlots])
            /\ UNCHANGED <<deleted, reading, snapshots, users, mu, goroutines>>
    \/ \E availabilityID \in AvailabilityIDs, availableSlots \in CallAvailableLists :
            /\ UpdateAvailability(availabilityID, availableSlots)
            /\ call' = Call("UpdateAvailability",
                            [availabilityID |-> availabilityID,
                             availableSlots |-> availableSlots])
            /\ UNCHANGED <<deleted, reading, snapshots, users, mu, goroutines>>
    \/ \E availabilityID \in AvailabilityIDs :
            /\ DeleteAvailability(availabilityID)
            /\ call' = Call("DeleteAvailability", [availabilityID |-> availabilityID])
            /\ UNCHANGED <<deleted, reading, snapshots, users, mu, goroutines>>
    \/ \E userID \in UserIDs, meetingID \in MeetingIDs :
            /\ GetAvailability(userID, meetingID)
            /\ call' = Call("GetAvailability", [userID |-> userID, meetingID |-> meetingID])
            /\ UNCHANGED <<deleted, reading, snapshots, users, mu, goroutines>>

SpecCalls == Init /\ [][NextCalls]_vars

\* ------------------------------------- GetRecommendations beside other calls
\* the records of the meeting that the repository holds
MeetingRecords(meetingID) ==
    {availabilities[a] : a \in MeetingAvailabilityIDs(meetingID)}

\* what the repository holds for the meeting at this instant
Snapshot(meetingID) == <<meetings[meetingID], MeetingRecords(meetingID)>>

\* a call that runs as one step beside the GetRecommendations call in flight
Beside(meetingsNow) ==
    /\ snapshots' = snapshots \cup {Snapshot(m)' : m \in meetingsNow}
    /\ UNCHANGED <<call, deleted, reading, users, mu, goroutines>>

\* GetRecommendations, line 76: s.repository.GetMeetingByID(meetingID)
ReadMeeting(meetingID) ==
    /\ reading.pc # "meeting"
    /\ UNCHANGED <<meetings, availabilities, nextUuid, call, deleted, snapshots,
                 users, mu, goroutines>>
    /\ IF meetingID \notin DOMAIN meetings
       THEN /\ ret' = Failure(ErrNotFound, "Meeting not found")
            /\ UNCHANGED reading
       ELSE /\ reading' = [pc |-> "meeting", meetingID |-> meetingID,
                           meeting |-> meetings[meetingID]]
            /\ UNCHANGED ret

\* GetRecommendations, lines 82 to 87: s.repository.GetMeetingAvailabilities(meetingID)
\* and calculateRecommendations on the meeting read before
ReadAvailabilities ==
    /\ reading.pc = "meeting"
    /\ UNCHANGED <<meetings, availabilities, nextUuid, call, deleted, snapshots,
                 users, mu, goroutines>>
    /\ reading' = [pc |-> "done", meetingID |-> reading.meetingID,
                   meeting |-> reading.meeting,
                   records |-> MeetingRecords(reading.meetingID)]
    /\ \E avs \in Orderings(MeetingAvailabilityIDs(reading.meetingID)),
          order \in Orderings(SlotKeys(reading.meeting)) :
            ret' = Ret(ErrNone, reading.meetingID,
                       calculateRecommendations(
                           reading.meeting,
                           [i \in DOMAIN avs |-> availabilities[avs[i]]],
                           order))

\* the requests of the calls that run beside it
ConcCreateRequests ==
    [title : {"Sync"}, organizerID : {1}, estimatedDuration : {60},
     proposedSlots : {<<CallSlotB1>>}, participantIDs : CallParticipantLists]
ConcUpdateRequests ==
    [title : {""}, estimatedDuration : {0},
     proposedSlots : {<<>>, <<CallSlotA, CallSlotB1>>}, participantIDs : CallParticipantLists]
    \ [title : {""}, estimatedDuration : {0},
       proposedSlots : {<<>>}, participantIDs : {<<>>}]
ConcAvailableLists == {<<CallSlotB>>}
ConcUpdateLists == {<<CallSlotA>>}

NextConc ==
    \/ \E r \in ConcCreateRequests :
            /\ CreateMeeting(r.title, r.organizerID, r.estimatedDuration,
                             r.proposedSlots, r.participantIDs)
            /\ Beside(DOMAIN meetings')
    \/ \E meetingID \in MeetingIDs : ReadMeeting(meetingID)
    \/ ReadAvailabilities
    \/ \E meetingID \in DOMAIN meetings, r \in ConcUpdateRequests :
            /\ UpdateMeeting(meetingID, r.title, r.estimatedDuration,
                             r.proposedSlots, r.participantIDs)
            /\ Beside(DOMAIN meetings')
    \/ \E meetingID \in DOMAIN meetings :
            DeleteMeeting(meetingID) /\ Beside(DOMAIN meetings')
    \/ \E userID \in Users, meetingID \in DOMAIN meetings, availableSlots \in ConcAvailableLists :
            AddAvailability(userID, meetingID, availableSlots) /\ Beside(DOMAIN meetings')
    \/ \E availabilityID \in DOMAIN availabilities, availableSlots \in ConcUpdateLists :
            UpdateAvailability(availabilityID, availableSlots) /\ Beside(DOMAIN meetings')
    \/ \E availabilityID \in DOMAIN availabilities :
            DeleteAvailability(availabilityID) /\ Beside(DOMAIN meetings')

SpecConc == Init /\ [][NextConc]_vars

\* ------------------------------------------- UpdateMeeting, field by field
\* the meetings the updates work on: a title, a duration, one slot with an id
\* and one participant
UpdateCreateRequests ==
    [title : {"Sync"}, organizerID : {1}, estimatedDuration : {60},
     proposedSlots : {<<CallSlotB1>>}, participantIDs : {<<2>>}]
\* the UpdateMeeting requests: each of the four fields given or left out, the
\* given values other than the stored ones
UpdateRequests ==
    [title : {"", "Retro"}, estimatedDuration : {0, 30},
     proposedSlots : {<<>>, <<CallSlotB>>}, participantIDs : {<<>>, <<1>>}]

\* the calls recorded as in NextCalls; an UpdateMeeting call also records the
\* meeting its GetMeetingByID read
NextUpdate ==
    \/ \E r \in UpdateCreateRequests :
            /\ CreateMeeting(r.title, r.organizerID, r.estimatedDuration,
                             r.proposedSlots, r.participantIDs)
            /\ call' = Call("CreateMeeting", r)
            /\ UNCHANGED <<deleted, reading, snapshots, users, mu, goroutines>>
    \/ \E meetingID \in DOMAIN meetings, r \in UpdateRequests :
            /\ UpdateMeeting(meetingID, r.title, r.estimatedDuration,
                             r.proposedSlots, r.participantIDs)
            /\ call' = Call("UpdateMeeting",
                            [meetingID |-> meetingID, title |-> r.title,
                             estimatedDuration |-> r.estimatedDuration,
                             proposedSlots |-> r.proposedSlots,
                             participantIDs |-> r.participantIDs,
                             stored |-> meetings[meetingID]])
            /\ UNCHANGED <<deleted, reading, snapshots, users, mu, goroutines>>
    \/ \E userID \in Users, meetingID \in DOMAIN meetings :
            /\ AddAvailability(userID, meetingID, <<CallSlotB>>)
            /\ call' = Call("AddAvailability",
                            [userID |-> userID, meetingID |-> meetingID,
                             availableSlots |-> <<CallSlotB>>])
            /\ UNCHANGED <<deleted, reading, snapshots, users, mu, goroutines>>

SpecUpdate == Init /\ [][NextUpdate]_vars

\* ------------------------------------------------ InMemoryUserRepository
\* an e-mail address is the list of its characters; the addresses of the
\* Create requests: two that differ in case alone, and a third
Emails == {<<"a", "@", "x">>, <<"A", "@", "X">>, <<"b", "@", "x">>}

\* unicode.SimpleFold on the letters of the addresses
FoldRune(c) ==
    CASE c = "A" -> "a"
      [] c = "B" -> "b"
      [] c = "X" -> "x"
      [] OTHER -> c

\* strings.EqualFold(s, t)
EqualFold(s, t) ==
    /\ Len(s) = Len(t)
    /\ \A i \in DOMAIN s : FoldRune(s[i]) = FoldRune(t[i])

ErrConflict == "CONFLICT"

\* a bug the repository could have (and the older InMemoryUserRepository has):
\* Create takes no lock
LockNone(g) == mu' = mu

\* r.mu.Lock()
Lock(g) == mu = 0 /\ mu' = g

\* the deferred r.mu.Unlock()
Unlock(g) == mu' = 0

\* what the user repository does not touch
UNCHANGED_UserRepository ==
    UNCHANGED <<meetings, availabilities, ret, call, deleted, reading, snapshots>>

\* InMemoryUserRepository.Create, lines 276-277: the goroutine takes the lock
UserCreateLock(g, email) ==
    /\ goroutines[g].pc \in {"idle", "done"}
    /\ Lock(g)
    /\ goroutines' = [goroutines EXCEPT ![g] = [pc |-> "locked", email |-> email]]
    /\ UNCHANGED <<users, nextUuid>>
    /\ UNCHANGED_UserRepository

\* lines 279-284: the loop over the stored users; on an equal address the
\* Conflict error is returned and the lock released
UserCreateCheck(g) ==
    /\ goroutines[g].pc = "locked"
    /\ UNCHANGED <<users, nextUuid>>
    /\ UNCHANGED_UserRepository
    /\ IF \E id \in DOMAIN users : EqualFold(users[id], goroutines[g].email)
       THEN /\ goroutines' = [goroutines EXCEPT ![g] =
                                [pc |-> "done", email |-> goroutines[g].email,
                                 err |-> ErrConflict, msg |-> "Email is already in use",
                                 user |-> 0]]
            /\ Unlock(g)
       ELSE /\ goroutines' = [goroutines EXCEPT ![g].pc = "checked"]
            /\ UNCHANGED mu

\* lines 286-297: the id is drawn, the user stored and the lock released
UserCreateStore(g) ==
    /\ goroutines[g].pc = "checked"
    /\ nextUuid + 1 <= MaxUuid
    /\ users' = (Uuid(nextUuid + 1) :> goroutines[g].email) @@ users
    /\ nextUuid' = nextUuid + 1
    /\ goroutines' = [goroutines EXCEPT ![g] =
                        [pc |-> "done", email |-> goroutines[g].email,
                         err |-> ErrNone, msg |-> "", user |-> Uuid(nextUuid + 1)]]
    /\ Unlock(g)
    /\ UNCHANGED_UserRepository

NextUsers ==
    \/ \E g \in Goroutines, email \in Emails : UserCreateLock(g, email)
    \/ \E g \in Goroutines : UserCreateCheck(g)
    \/ \E g \in Goroutines : UserCreateStore(g)

SpecUsers == Init /\ [][NextUsers]_vars

\* --------------------------- InMemoryMeetingRepository, goroutines side by side
\* the meeting createTestMeeting builds for goroutine g: every id is drawn by
\* the test before the repository is called and differs between goroutines
TestMeeting(g) ==
    [ID                |-> 10 + g,
     Title             |-> "Test Meeting",
     OrganizerID       |-> 1,
     EstimatedDuration |-> 60,
     ProposedSlots     |-> <<TimeSlot(20 + g, 1, 2)>>,
     Participants      |-> <<2>>]

\* the record the test builds for goroutine g; the repository draws its id
TestAvailability(g, id) ==
    [ID             |-> id,
     ParticipantID  |-> TestMeeting(g).Participants[1],
     MeetingID      |-> TestMeeting(g).ID,
     AvailableSlots |-> <<TestMeeting(g).ProposedSlots[1]>>]

\* the goroutines inside an assignment to the map
Writing(map) == {g \in Goroutines : goroutines[g].pc = map}

\* goroutine g enters the assignment: it and every goroutine already inside
\* write the map at the same time, which Go leaves undefined
EnterMap(g, map, id) ==
    goroutines' =
        [h \in Goroutines |->
            IF h = g THEN [pc |-> map, id |-> id, raced |-> Writing(map) # {}]
            ELSE IF h \in Writing(map) THEN [goroutines[h] EXCEPT !.raced = TRUE]
            ELSE goroutines[h]]

\* what an assignment that ran beside another one can come to: the entry is
\* stored, the entry is lost, or the runtime stops the program with
\* "fatal error: concurrent map writes"
RaceOutcomes == {"stored", "lost", "fatal"}
Outcomes(g) == IF goroutines[g].raced THEN RaceOutcomes ELSE {"stored"}

\* where goroutine g is after the assignment
LeaveMap(g, outcome, pc) ==
    goroutines' =
        IF outcome = "fatal"
        THEN [h \in Goroutines |-> [pc |-> "fatal"]]
        ELSE [goroutines EXCEPT ![g] = [pc |-> pc]]

\* what the repository test does not touch
UNCHANGED_Test ==
    UNCHANGED <<ret, call, deleted, reading, snapshots, users, mu>>

\* InMemoryMeetingRepository.CreateMeeting up to "r.meetings[meeting.ID] = meeting"
RepoCreateMeetingEnter(g) ==
    /\ goroutines[g].pc = "idle"
    /\ EnterMap(g, "meetings", TestMeeting(g).ID)
    /\ UNCHANGED <<meetings, availabilities, nextUuid>>
    /\ UNCHANGED_Test

\* the assignment "r.meetings[meeting.ID] = meeting" ends and the call returns
RepoCreateMeetingLeave(g) ==
    /\ goroutines[g].pc = "meetings"
    /\ \E outcome \in Outcomes(g) :
            /\ LeaveMap(g, outcome, "created")
            /\ meetings' = IF outcome = "stored"
                           THEN (TestMeeting(g).ID :> TestMeeting(g)) @@ meetings
                           ELSE meetings
    /\ UNCHANGED <<availabilities, nextUuid>>
    /\ UNCHANGED_Test

\* after wg.Wait(): InMemoryMeetingRepository.CreateAvailability up to
\* "r.availabilities[availability.ID] = availability"
RepoCreateAvailabilityEnter(g) ==
    /\ goroutines[g].pc = "created"
    /\ \A h \in Goroutines : goroutines[h].pc \in {"created", "availabilities", "done"}
    /\ nextUuid + 1 <= MaxUuid
    /\ nextUuid' = nextUuid + 1
    /\ EnterMap(g, "availabilities", Uuid(nextUuid + 1))
    /\ UNCHANGED <<meetings, availabilities>>
    /\ UNCHANGED_Test

\* the assignment "r.availabilities[availability.ID] = availability" ends
RepoCreateAvailabilityLeave(g) ==
    /\ goroutines[g].pc = "availabilities"
    /\ \E outcome \in Outcomes(g) :
            /\ LeaveMap(g, outcome, "done")
            /\ availabilities' =
                IF outcome = "stored"
                THEN (goroutines[g].id :> TestAvailability(g, goroutines[g].id))
                        @@ availabilities
                ELSE availabilities
    /\ UNCHANGED <<meetings, nextUuid>>
    /\ UNCHANGED_Test

NextTest ==
    \/ \E g \in Goroutines : RepoCreateMeetingEnter(g)
    \/ \E g \in Goroutines : RepoCreateMeetingLeave(g)
    \/ \E g \in Goroutines : RepoCreateAvailabilityEnter(g)
    \/ \E g \in Goroutines : RepoCreateAvailabilityLeave(g)

SpecTest == Init /\ [][NextTest]_vars

\* ------------------------------------------- calculateRecommendations alone
\* the meetings handed to the engine: an organizer, no, one or two proposed
\* slots, no or one participant
EngineMeetings ==
    [ID : {7}, Title : {"Sync"}, OrganizerID : {1}, EstimatedDuration : {60},
     ProposedSlots : {<<>>, <<TimeSlot(1, 1, 3)>>, <<TimeSlot(1, 1, 3), TimeSlot(2, 1, 2)>>},
     Participants : {<<>>, <<2>>}]

\* the records handed to it: of the organizer, of the participant and of a
\* stranger, of this meeting and of another, with no slot, with the first
\* proposed slot and with a slot no meeting has
EngineRecords ==
    [ID : {8}, ParticipantID : UserIDs, MeetingID : {7, 6},
     AvailableSlots : {<<>>, <<TimeSlot(1, 1, 3)>>, <<TimeSlot(3, 1, 3)>>}]

\* the slices of at most two records
EngineRecordLists ==
    {<<>>} \cup {<<r>> : r \in EngineRecords}
    \cup {<<r, [t EXCEPT !.ID = 9]>> : r, t \in EngineRecords}

\* the repository is empty; reading holds the arguments of the engine call
InitEngine ==
    /\ meetings = <<>>
    /\ availabilities = <<>>
    /\ nextUuid = 0
    /\ ret = Ret(ErrNone, 0, NoRecs)
    /\ call = [op |-> "", args |-> <<>>]
    /\ deleted = {}
    /\ \E meeting \in EngineMeetings, records \in EngineRecordLists :
            reading = [pc |-> "engine", meeting |-> meeting, records |-> records]
    /\ snapshots = {}
    /\ users = <<>>
    /\ mu = 0
    /\ goroutines = [g \in Goroutines |-> [pc |-> "idle"]]

\* s.calculateRecommendations(meeting, availabilities) on these arguments
Calculate ==
    /\ reading.pc = "engine"
    /\ reading' = [reading EXCEPT !.pc = "returned"]
    /\ \E order \in Orderings(SlotKeys(reading.meeting)) :
            ret' = Ret(ErrNone, reading.meeting.ID,
                       calculateRecommendations(reading.meeting, reading.records, order))
    /\ UNCHANGED <<meetings, availabilities, nextUuid, call, deleted, snapshots,
                   users, mu, goroutines>>

NextEngine == Calculate

SpecEngine == InitEngine /\ [][NextEngine]_vars

\* ------------------------------------------------------------------ claims
\* the latest call was a GetRecommendations that returned recommendations
HasRecs == ret.meetingID # 0

\* the meeting and the availability records that call read: GetRecommendations
\* writes nothing, so they are the stored ones
RecMeeting == meetings[ret.meetingID]
RecAvailabilities == {availabilities[a] : a \in MeetingAvailabilityIDs(ret.meetingID)}

\* {organizer} and the invited participants, as a set of ids
Eligible(meeting) == {meeting.OrganizerID} \cup Range(meeting.Participants)

\* start and end instants are equal
SameInstants(s, t) == s.StartTime = t.StartTime /\ s.EndTime = t.EndTime

\* some record of the participant holds a slot with the instants of the slot
HasSlot(avs, participantID, slot) ==
    \E a \in avs :
        /\ a.ParticipantID = participantID
        /\ \E j \in DOMAIN a.AvailableSlots : SameInstants(a.AvailableSlots[j], slot)

\* a sequence without its repeated elements, first occurrences kept
RECURSIVE Dedup(_)
Dedup(s) ==
    IF s = <<>> THEN <<>>
    ELSE LET front == Dedup(SubSeq(s, 1, Len(s) - 1))
         IN  IF s[Len(s)] \in Range(front) THEN front ELSE Append(front, s[Len(s)])

\* some enumeration of a set of records
SeqOf(S) == CHOOSE f \in Orderings(S) : TRUE

\* C1: in every RecommendedSlot GetRecommendations returns,
\* AvailableCount + len(UnavailableParticipants) = TotalParticipants
C1_CountsAddUp ==
    HasRecs =>
        \A i \in DOMAIN ret.recs :
            ret.recs[i].AvailableCount + Len(ret.recs[i].UnavailableParticipants)
                = ret.recs[i].TotalParticipants

\* C2: GetRecommendations returns exactly one entry for each proposed slot of
\* the meeting: as many entries as proposed slots, none dropped, none invented
C2_OneEntryPerSlot ==
    HasRecs =>
        /\ Len(ret.recs) = Len(RecMeeting.ProposedSlots)
        /\ \A k \in DOMAIN RecMeeting.ProposedSlots :
            \E i \in DOMAIN ret.recs : ret.recs[i].TimeSlot = RecMeeting.ProposedSlots[k]
        /\ \A i \in DOMAIN ret.recs :
            \E k \in DOMAIN RecMeeting.ProposedSlots :
                ret.recs[i].TimeSlot = RecMeeting.ProposedSlots[k]

C4_StableOnTies ==
    HasRecs =>
        \A i, j \in DOMAIN ret.recs :
            (i < j /\ ret.recs[i].AvailableCount = ret.recs[j].AvailableCount) =>
                \E a, b \in DOMAIN RecMeeting.ProposedSlots :
                    /\ a < b
                    /\ RecMeeting.ProposedSlots[a] = ret.recs[i].TimeSlot
                    /\ RecMeeting.ProposedSlots[b] = ret.recs[j].TimeSlot

\* C5: a GetRecommendations call that follows a GetRecommendations call on the
\* same meeting, with nothing stored in between, returns the same list
C5_Idempotent ==
    [][(/\ HasRecs
        /\ ret'.meetingID = ret.meetingID
        /\ meetings' = meetings
        /\ availabilities' = availabilities) => ret'.recs = ret.recs]_vars

\* C6: an eligible participant is counted as available for a returned slot
\* (is not in its UnavailableParticipants) exactly when one of the participant's
\* records holds a slot with the same start and end instants
C6_MatchByInstants ==
    HasRecs =>
        \A i \in DOMAIN ret.recs, p \in Eligible(RecMeeting) :
            (p \notin Range(ret.recs[i].UnavailableParticipants))
                <=> HasSlot(RecAvailabilities, p, ret.recs[i].TimeSlot)

\* the records of the users that are the organizer or invited
EligibleRecords(meeting, avs) ==
    {a \in avs : a.ParticipantID \in Eligible(meeting)}

\* C7: every returned entry is the entry computed for its slot from the
\* records of eligible users alone: a record of a user who is neither the
\* organizer nor invited changes no count and no list
C7_IneligibleIgnored ==
    HasRecs =>
        \A i \in DOMAIN ret.recs :
            ret.recs[i] =
                RecommendedSlot(RecMeeting,
                                SeqOf(EligibleRecords(RecMeeting, RecAvailabilities)),
                                ret.recs[i].TimeSlot.ID)

\* recommendations were returned while a user who is neither organizer nor
\* invited has a record holding a proposed slot of the meeting
C7_Witness ==
    /\ HasRecs
    /\ \E a \in RecAvailabilities :
        /\ a.ParticipantID \notin Eligible(RecMeeting)
        /\ \E j \in DOMAIN a.AvailableSlots, k \in DOMAIN RecMeeting.ProposedSlots :
            a.AvailableSlots[j] = RecMeeting.ProposedSlots[k]

\* C8: when a participant has several records for the meeting, AvailableCount
\* of a slot is the number of distinct eligible participants with that slot in
\* any of their records
C8_RecordsUnioned ==
    (/\ HasRecs
     /\ \E a, b \in MeetingAvailabilityIDs(ret.meetingID) :
            a # b /\ availabilities[a].ParticipantID = availabilities[b].ParticipantID)
    => \A i \in DOMAIN ret.recs :
        ret.recs[i].AvailableCount =
            Cardinality({p \in Eligible(RecMeeting) :
                            HasSlot(RecAvailabilities, p, ret.recs[i].TimeSlot)})

\* C9: TotalParticipants is the number of distinct ids among the organizer and
\* the invited participants
C9_TotalIsDistinct ==
    HasRecs =>
        \A i \in DOMAIN ret.recs :
            ret.recs[i].TotalParticipants = Cardinality(Eligible(RecMeeting))

\* C10: UnavailableParticipants is the eligible participants that are not
\* available for the slot, organizer first, then the invited ones in the order
\* of meeting.Participants, each id once
C10_UnavailableList ==
    HasRecs =>
        \A i \in DOMAIN ret.recs :
            LET unavailable(p) == ~HasSlot(RecAvailabilities, p, ret.recs[i].TimeSlot)
            IN  ret.recs[i].UnavailableParticipants =
                    SelectSeq(Dedup(AllParticipants(RecMeeting)), unavailable)

\* the latest call was op and it returned no error
Succeeded(op) == call.op = op /\ ret.err = ErrNone

\* some slot of the list has the start and end instants of the slot
InstantsIn(slots, slot) == \E j \in DOMAIN slots : SameInstants(slots[j], slot)

\* the user is counted as available in the entry
CountedIn(entry, userID) == userID \notin Range(entry.UnavailableParticipants)

\* C11: when AddAvailability(u, m, S) succeeded for an eligible user u who has
\* no other record for m, the GetRecommendations(m) call that follows returns,
\* for every proposed slot of m, an entry that counts u as available if the
\* instants of the slot occur in S and lists u as unavailable if they do not
C11_AddThenRecommend ==
    [][(/\ Succeeded("AddAvailability")
        /\ call.args.userID \in Eligible(meetings[call.args.meetingID])
        /\ Cardinality(GetAvailabilityIDs(call.args.userID, call.args.meetingID)) = 1
        /\ call'.op = "GetRecommendations"
        /\ call'.args.meetingID = call.args.meetingID
        /\ ret'.err = ErrNone)
       => \A k \in DOMAIN meetings[call.args.meetingID].ProposedSlots :
            LET slot == meetings[call.args.meetingID].ProposedSlots[k]
            IN  \E i \in DOMAIN ret'.recs :
                    /\ ret'.recs[i].TimeSlot = slot
                    /\ CountedIn(ret'.recs[i], call.args.userID)
                            <=> InstantsIn(call.args.availableSlots, slot)]_vars

\* C12: when UpdateMeeting replaced the proposed slots of m by slots without
\* ids that have, one by one, the instants of the slots before, a participant
\* that GetRecommendations(m) counted as available for a slot before the update
\* is counted as available for the slot with these instants after it
C12_UpdateKeepsCounts ==
    [][\A m \in DOMAIN meetings :
        (/\ call'.op = "UpdateMeeting"
         /\ call'.args.meetingID = m
         /\ ret'.err = ErrNone
         /\ LET old == meetings[m].ProposedSlots
                new == call'.args.proposedSlots
            IN  /\ Len(new) > 0
                /\ Len(new) = Len(old)
                /\ \A i \in DOMAIN new : new[i].ID = 0 /\ SameInstants(new[i], old[i]))
        => \A before \in Recommendations(m), after \in Recommendations(m)' :
            \A i \in DOMAIN before, j \in DOMAIN after :
                \A p \in Eligible(meetings[m]) \cap Eligible(meetings'[m]) :
                    (/\ SameInstants(before[i].TimeSlot, after[j].TimeSlot)
                     /\ CountedIn(before[i], p))
                    => CountedIn(after[j], p)]_vars

\* C13: when UpdateAvailability(a, S) succeeded with slots S that carry no id
\* and have the instants of proposed slots of the meeting, for the one record
\* of an eligible participant, the GetRecommendations call that follows
\* returns, for every proposed slot, an entry that counts the participant as
\* available exactly if the instants of the slot occur in S
C13_UpdateThenRecommend ==
    [][\A a \in DOMAIN availabilities :
        (/\ Succeeded("UpdateAvailability")
         /\ call.args.availabilityID = a
         /\ availabilities[a].MeetingID \in DOMAIN meetings
         /\ LET S == call.args.availableSlots
                p == availabilities[a].ParticipantID
                meeting == meetings[availabilities[a].MeetingID]
            IN  /\ \A j \in DOMAIN S :
                        S[j].ID = 0 /\ InstantsIn(meeting.ProposedSlots, S[j])
                /\ p \in Eligible(meeting)
                /\ GetAvailabilityIDs(p, meeting.ID) = {a}
         /\ call'.op = "GetRecommendations"
         /\ call'.args.meetingID = availabilities[a].MeetingID
         /\ ret'.err = ErrNone)
        => \A k \in DOMAIN meetings[availabilities[a].MeetingID].ProposedSlots :
            LET slot == meetings[availabilities[a].MeetingID].ProposedSlots[k]
            IN  \E i \in DOMAIN ret'.recs :
                    /\ ret'.recs[i].TimeSlot = slot
                    /\ CountedIn(ret'.recs[i], availabilities[a].ParticipantID)
                            <=> InstantsIn(call.args.availableSlots, slot)]_vars

\* C14: a GetRecommendations call that ran beside other calls computed its
\* result from a meeting and a set of records that the repository held
\* together at one instant
C14_OneInstant ==
    reading.pc = "done" => <<reading.meeting, reading.records>> \in snapshots

\* C15: the repository holds at most one availability record for every pair
\* of a participant id and a meeting id
C15_OneRecordPerPair ==
    \A a, b \in DOMAIN availabilities :
        (/\ availabilities[a].ParticipantID = availabilities[b].ParticipantID
         /\ availabilities[a].MeetingID = availabilities[b].MeetingID)
        => a = b

\* the latest call was AddAvailability for a stored meeting, and some submitted
\* slot has the instants of no proposed slot of the meeting
AddsUnmatched(c) ==
    /\ c.op = "AddAvailability"
    /\ c.args.meetingID \in DOMAIN meetings
    /\ \E j \in DOMAIN c.args.availableSlots :
        ~InstantsIn(meetings[c.args.meetingID].ProposedSlots, c.args.availableSlots[j])

\* C16 as stated: an AddAvailability call in which some submitted slot has the
\* instants of no proposed slot of the meeting returns a VALIDATION error and
\* stores no record
C16_UnmatchedRejected ==
    [][AddsUnmatched(call')
       => ret'.err = ErrValidation /\ availabilities' = availabilities]_vars

\* C16 as amended: an AddAvailability call of a user the user service holds, in
\* which some submitted slot has the instants of no proposed slot of the
\* meeting, returns a VALIDATION error and stores no record, also when other
\* slots of the request match
C16_KnownUserUnmatchedRejected ==
    [][(AddsUnmatched(call') /\ UserExists(call'.args.userID))
       => ret'.err = ErrValidation /\ availabilities' = availabilities]_vars

\* a known user submitted two slots for a stored meeting, one with the instants
\* of a proposed slot and one without; the call returned a VALIDATION error and
\* the meeting has no record
C16_Witness ==
    /\ AddsUnmatched(call)
    /\ UserExists(call.args.userID)
    /\ \E j \in DOMAIN call.args.availableSlots :
        InstantsIn(meetings[call.args.meetingID].ProposedSlots, call.args.availableSlots[j])
    /\ ret.err = ErrValidation
    /\ MeetingAvailabilityIDs(call.args.meetingID) = {}

\* C17: a DeleteMeeting(m) call that succeeds leaves the repository without
\* meeting m and without any record whose MeetingID is m, and with every other
\* meeting and every record of another meeting as it was
C17_DeleteCascades ==
    [][\A m \in DOMAIN meetings :
        (/\ call'.op = "DeleteMeeting"
         /\ call'.args.meetingID = m
         /\ ret'.err = ErrNone)
        => /\ DOMAIN meetings' = DOMAIN meetings \ {m}
           /\ \A n \in DOMAIN meetings' : meetings'[n] = meetings[n]
           /\ DOMAIN availabilities' =
                {a \in DOMAIN availabilities : availabilities[a].MeetingID # m}
           /\ \A a \in DOMAIN availabilities' : availabilities'[a] = availabilities[a]]_vars

\* DeleteMeeting succeeded and the repository still holds another meeting and a
\* record of it
C17_Witness ==
    /\ Succeeded("DeleteMeeting")
    /\ call.args.meetingID \notin DOMAIN meetings
    /\ \E a \in DOMAIN availabilities : availabilities[a].MeetingID \in DOMAIN meetings

\* the calls that name a meeting and fail when the repository does not hold it
MeetingCalls == {"GetRecommendations", "UpdateMeeting", "AddAvailability", "DeleteMeeting"}

\* C18: every GetRecommendations, UpdateMeeting, AddAvailability and
\* DeleteMeeting call that names a meeting an earlier DeleteMeeting call removed
\* returns a NOT_FOUND error, whatever was called in between
C18_DeletedStaysGone ==
    [][\A m \in deleted :
        (call'.op \in MeetingCalls /\ call'.args.meetingID = m)
        => ret'.err = ErrNotFound]_vars

\* a known user called AddAvailability for a meeting that was deleted before,
\* after another meeting was created, and got "Meeting not found"
C18_Witness ==
    /\ call.op = "AddAvailability"
    /\ call.args.meetingID \in deleted
    /\ UserExists(call.args.userID)
    /\ meetings # <<>>
    /\ ret = Failure(ErrNotFound, "Meeting not found")

\* C19: after a DeleteAvailability call that succeeded for a record of
\* participant u and meeting m, GetAvailability(u, m) finds no record and
\* returns the NOT_FOUND error
C19_DeletedNotFound ==
    [][\A a \in DOMAIN availabilities, u \in UserIDs, m \in MeetingIDs :
        (/\ call'.op = "DeleteAvailability"
         /\ call'.args.availabilityID = a
         /\ ret'.err = ErrNone
         /\ availabilities[a].ParticipantID = u
         /\ availabilities[a].MeetingID = m)
        => GetAvailabilityIDs(u, m)' = {}]_vars

\* the title, the duration and the slot list of the request pass their checks
InputValid(r) ==
    r.title # "" /\ r.estimatedDuration > 0 /\ Len(r.proposedSlots) > 0

\* C20: CreateMeeting reports the first check that fails, in the order title,
\* duration, slots, organizer, participants: it returns a VALIDATION error
\* exactly when the title is empty, the duration is not positive or there is no
\* slot, whoever the organizer is, and NOT_FOUND for an unknown organizer or
\* participant only when these three checks pass
C20_FirstFailure ==
    [][call'.op = "CreateMeeting" =>
        LET r == call'.args
            unknown == {i \in DOMAIN r.participantIDs : r.participantIDs[i] \notin Users}
        IN  /\ r.title = "" => ret' = Failure(ErrValidation, "Title is required")
            /\ (r.title # "" /\ r.estimatedDuration <= 0)
                => ret' = Failure(ErrValidation, "Estimated duration must be positive")
            /\ (r.title # "" /\ r.estimatedDuration > 0 /\ r.proposedSlots = <<>>)
                => ret' = Failure(ErrValidation,
                                 "At least one proposed time slot is required")
            /\ (InputValid(r) /\ r.organizerID \notin Users)
                => ret' = Failure(ErrNotFound, "Organizer not found")
            /\ (InputValid(r) /\ r.organizerID \in Users /\ unknown # {})
                => /\ ret'.err = ErrNotFound
                   /\ \E i \in unknown :
                        /\ \A j \in unknown : i <= j
                        /\ ret'.msg = "Participant not found: "
                                        \o ToString(r.participantIDs[i])
            /\ (InputValid(r) /\ r.organizerID \in Users /\ unknown = {})
                => ret'.err = ErrNone
            /\ ret'.err # ErrNone => meetings' = meetings /\ availabilities' = availabilities]_vars

\* CreateMeeting was called without a title, with the duration 0, without slots
\* and with an unknown organizer, and returned the VALIDATION error of the title
C20_Witness ==
    /\ call.op = "CreateMeeting"
    /\ call.args.title = ""
    /\ call.args.estimatedDuration = 0
    /\ call.args.proposedSlots = <<>>
    /\ call.args.organizerID \notin Users
    /\ ret = Failure(ErrValidation, "Title is required")

\* the operations of the meeting service that write to the repository
WritingOps ==
    {"CreateMeeting", "UpdateMeeting", "DeleteMeeting",
     "AddAvailability", "UpdateAvailability", "DeleteAvailability"}

\* C21: a CreateMeeting, UpdateMeeting, DeleteMeeting, AddAvailability,
\* UpdateAvailability or DeleteAvailability call that returns an error leaves
\* the stored meetings and the stored availability records exactly as they
\* were before the call.
C21_ErrorStoresNothing ==
    [][(call'.op \in WritingOps /\ ret'.err # ErrNone)
        => (meetings' = meetings /\ availabilities' = availabilities)]_vars

\* an UpdateMeeting call on a stored meeting that brought new slots and failed
\* on an unknown participant
C21_Witness ==
    /\ call.op = "UpdateMeeting"
    /\ call.args.meetingID \in DOMAIN meetings
    /\ Len(call.args.proposedSlots) > 0
    /\ ret.err = ErrNotFound
    /\ availabilities # <<>>

Returned == {g \in Goroutines : goroutines[g].pc = "done"}

\* C23: with the lock-protected InMemoryUserRepository, whatever the order
\* and interleaving of the Create calls, no two stored users have e-mail
\* addresses that are equal ignoring case, and a Create call whose address is
\* in use returns the CONFLICT error and stores nothing.
C23_EmailsUnique ==
    /\ \A a, b \in DOMAIN users : a # b => ~EqualFold(users[a], users[b])
    /\ Cardinality(DOMAIN users) = nextUuid
    /\ \A g \in Returned :
        IF goroutines[g].err = ErrConflict
        THEN /\ goroutines[g].user = 0
             /\ \E a \in DOMAIN users : EqualFold(users[a], goroutines[g].email)
        ELSE /\ goroutines[g].user \in DOMAIN users
             /\ users[goroutines[g].user] = goroutines[g].email

\* two Create calls with addresses that differ in case alone have returned,
\* one with the user and one with the conflict, while a third call is inside
C23_Witness ==
    \E g, h \in Returned :
        /\ goroutines[g].err = ErrNone
        /\ goroutines[h].err = ErrConflict
        /\ goroutines[h].msg = "Email is already in use"
        /\ goroutines[g].email # goroutines[h].email
        /\ EqualFold(goroutines[g].email, goroutines[h].email)
        /\ \E k \in Goroutines : goroutines[k].pc = "checked"

\* C24: when the goroutines call CreateMeeting at the same time and then
\* CreateAvailability at the same time on one InMemoryMeetingRepository, no
\* two of them are inside a write to the same map at once, the program is
\* not stopped, and once the calls have returned every meeting and every
\* record is stored.
C24_ConcurrentWritesKept ==
    /\ Cardinality(Writing("meetings")) <= 1
    /\ Cardinality(Writing("availabilities")) <= 1
    /\ \A g \in Goroutines : goroutines[g].pc # "fatal"
    /\ (\A g \in Goroutines : goroutines[g].pc \in {"created", "availabilities", "done"})
        => \A g \in Goroutines : TestMeeting(g).ID \in DOMAIN meetings
    /\ (\A g \in Goroutines : goroutines[g].pc = "done")
        => Cardinality(DOMAIN availabilities) = Cardinality(Goroutines)

\* C25: a GetRecommendations call, whether it returns a list or an error,
\* leaves the stored meetings, with their slots and participants, and the
\* stored availability records as they were.
C25_RecommendWritesNothing ==
    [][call'.op = "GetRecommendations"
        => (meetings' = meetings /\ availabilities' = availabilities)]_vars

\* GetRecommendations returned a list for a meeting that has a record of a
\* user who is not invited
C25_Witness ==
    /\ Succeeded("GetRecommendations")
    /\ Len(ret.recs) > 0
    /\ \E a \in MeetingAvailabilityIDs(call.args.meetingID) :
        availabilities[a].ParticipantID \notin Eligible(meetings[call.args.meetingID])

\* C26: calculateRecommendations on a meeting that has an organizer and no
\* proposed slot returns the empty list and no error, whatever availability
\* records it is given.
C26_NoSlotsNoEntries ==
    (reading.pc = "returned" /\ reading.meeting.ProposedSlots = <<>>)
        => (ret.err = ErrNone /\ ret.recs = <<>>)

\* the engine returned for a meeting without slots and two records, one of
\* them the organizer's with a slot in it
C26_Witness ==
    /\ reading.pc = "returned"
    /\ reading.meeting.ProposedSlots = <<>>
    /\ Len(reading.records) = 2
    /\ \E a \in DOMAIN reading.records :
        /\ reading.records[a].ParticipantID = reading.meeting.OrganizerID
        /\ reading.records[a].MeetingID = reading.meeting.ID
        /\ reading.records[a].AvailableSlots # <<>>

\* C27: every stored availability record holds at least one available slot:
\* AddAvailability and UpdateAvailability with an empty slot list are rejected
\* and store nothing.
C27_RecordHasSlot ==
    \A a \in DOMAIN availabilities : Len(availabilities[a].AvailableSlots) >= 1

\* C28: after any sequence of CreateMeeting, UpdateMeeting and DeleteMeeting
\* calls every stored meeting has at least one proposed slot and every
\* proposed slot has a non-empty id.
C28_MeetingHasSlots ==
    \A m \in DOMAIN meetings :
        /\ Len(meetings[m].ProposedSlots) >= 1
        /\ \A i \in DOMAIN meetings[m].ProposedSlots : meetings[m].ProposedSlots[i].ID # 0

\* an UpdateMeeting call that brought a slot without an id succeeded and the
\* meeting holds the slots of the request
C28_Witness ==
    /\ Succeeded("UpdateMeeting")
    /\ \E i \in DOMAIN call.args.proposedSlots : call.args.proposedSlots[i].ID = 0
    /\ Len(meetings[call.args.meetingID].ProposedSlots) = Len(call.args.proposedSlots)

\* C29: when the calls run one at a time, the MeetingID of every stored
\* availability record is the id of a stored meeting.
C29_RecordOfStoredMeeting ==
    \A a \in DOMAIN availabilities : availabilities[a].MeetingID \in DOMAIN meetings

\* a meeting has been deleted and afterwards a record of another meeting was
\* updated
C29_Witness ==
    /\ Succeeded("UpdateAvailability")
    /\ deleted # {}
    /\ availabilities[call.args.availabilityID].MeetingID \in DOMAIN meetings

\* the records of the meeting that are not the user's, in some order
RecordsWithout(meetingID, userID) ==
    SeqOf({availabilities[a] :
            a \in MeetingAvailabilityIDs(meetingID) \ GetAvailabilityIDs(userID, meetingID)})

====
